---- MODULE Spec2Model ----
(***************************************************************************)
(* Model of slack-to-slashwork (src/src/index.ts): the handler returned by *)
(* createSlackWebhook, run as several invocations that interleave at their *)
(* awaits, against a shared SlackIdMap and the Slashwork GraphQL service.  *)
(***************************************************************************)
EXTENDS Integers, Sequences, FiniteSets, TLC

\* Number of handler invocations (deliveries) in one run.
NumHandlers == 3

Handlers == 1..NumHandlers

\* JavaScript undefined.
None == "undefined"

\* JavaScript truthiness of an optional string.
Truthy(x) == x # None /\ x # ""

----------------------------------------------------------------------------
\* Configuration (SlackWebhookConfig)

\* config.groupMappings: Slack channel id -> Slashwork group id.
groupMappings == [c \in {"C1", "C2"} |-> IF c = "C1" THEN "G1" ELSE "G2"]

\* config.groupMappings[channel]
GroupOf(channel) ==
  IF channel \in DOMAIN groupMappings THEN groupMappings[channel] ELSE None

----------------------------------------------------------------------------
\* Content normalizer.  Optional strings and arrays are None when absent; a
\* text object {type, text} is the pair <<type, text>>.

\* x ?? d
Nullish(x, d) == IF x = None THEN d ELSE x

\* parts.join(sep)
RECURSIVE Join(_, _)
Join(parts, sep) ==
  IF parts = <<>> THEN ""
  ELSE IF Len(parts) = 1 THEN parts[1]
  ELSE parts[1] \o sep \o Join(Tail(parts), sep)

\* Variant: filter(Boolean) keeps every entry.
FilterBooleanKeepAll(array) == array

\* array.filter(Boolean)
FilterBoolean(array) == SelectSeq(array, Truthy)

\* An attachment, a block and their parts with every optional field absent.
BlankAttachment ==
  [pretext |-> None, author_name |-> None, author_link |-> None,
   title |-> None, title_link |-> None, text |-> None, fields |-> None,
   footer |-> None, fallback |-> None]
BlankBlock ==
  [type |-> None, text |-> None, fields |-> None, elements |-> None,
   alt_text |-> None, title |-> None, image_url |-> None]
BlankElement ==
  [type |-> None, text |-> None, alt_text |-> None, url |-> None,
   style |-> None, elements |-> None]

\* One entry of attachment.fields rendered as a line.
fieldLine(field) ==
  IF Truthy(field.title) /\ Truthy(field.value)
    THEN "**" \o field.title \o ":** " \o field.value
  ELSE IF Truthy(field.value) THEN field.value
  ELSE IF Truthy(field.title) THEN "**" \o field.title \o "**"
  ELSE ""

attachmentToMarkdown(attachment) ==
  LET pretext == IF Truthy(attachment.pretext) THEN <<attachment.pretext>> ELSE <<>>
      author ==
        IF Truthy(attachment.author_name)
          THEN IF Truthy(attachment.author_link)
                 THEN <<"*[" \o attachment.author_name \o "](" \o
                        attachment.author_link \o ")*">>
                 ELSE <<"*" \o attachment.author_name \o "*">>
          ELSE <<>>
      title ==
        IF Truthy(attachment.title)
          THEN IF Truthy(attachment.title_link)
                 THEN <<"**[" \o attachment.title \o "](" \o
                        attachment.title_link \o ")**">>
                 ELSE <<"**" \o attachment.title \o "**">>
          ELSE <<>>
      text == IF Truthy(attachment.text) THEN <<attachment.text>> ELSE <<>>
      fields ==
        IF attachment.fields # None /\ Len(attachment.fields) > 0
          THEN <<Join(FilterBoolean([i \in 1..Len(attachment.fields) |->
                                      fieldLine(attachment.fields[i])]), "\n")>>
          ELSE <<>>
      footer ==
        IF Truthy(attachment.footer)
          THEN <<"_" \o attachment.footer \o "_">> ELSE <<>>
      parts == pretext \o author \o title \o text \o fields \o footer
  IN IF Len(parts) = 0 /\ Truthy(attachment.fallback)
       THEN attachment.fallback
       ELSE Join(parts, "\n\n")

attachmentsToMarkdown(attachments) ==
  Join(FilterBoolean([i \in 1..Len(attachments) |->
                        attachmentToMarkdown(attachments[i])]),
       "\n\n---\n\n")

\* textObj?.text ?? ""
textObjectToString(textObj) ==
  IF textObj = None THEN "" ELSE Nullish(textObj[2], "")

\* el.text ?? ""
elementText(el) == Nullish(el.text, "")

\* An element of a rich_text_section.
sectionElementText(el) ==
  IF el.type = "text" THEN Nullish(el.text, "")
  ELSE IF el.type = "link" THEN Nullish(el.url, Nullish(el.text, ""))
  ELSE Nullish(el.text, "")

\* An element of a context block.
contextElementText(el) ==
  IF el.type = "image" THEN Nullish(el.alt_text, "") ELSE Nullish(el.text, "")

\* elements.map((el) => el.text ?? "").join("")
elementsText(elements) ==
  Join([i \in 1..Len(elements) |-> elementText(elements[i])], "")

\* The items of a rich_text_list, each with its prefix.
listItems(element) ==
  [index \in 1..Len(element.elements) |->
     (IF element.style = "ordered" THEN ToString(index) \o ". " ELSE "- ")
     \o elementsText(Nullish(element.elements[index].elements, <<>>))]

\* The code fence, three backquotes in the source (a TLA+ string cannot hold
\* a backquote).
Fence == "~~~"

\* What one element of a rich_text block pushes onto textParts.
richTextParts(element) ==
  IF element.type = "rich_text_section" /\ element.elements # None
    THEN <<Join([i \in 1..Len(element.elements) |->
                   sectionElementText(element.elements[i])], "")>>
  ELSE IF element.type = "rich_text_preformatted" /\ element.elements # None
    THEN <<Fence \o "\n" \o elementsText(element.elements) \o "\n" \o Fence>>
  ELSE IF element.type = "rich_text_quote" /\ element.elements # None
    THEN <<"> " \o elementsText(element.elements)>>
  ELSE IF element.type = "rich_text_list" /\ element.elements # None
    THEN <<Join(listItems(element), "\n")>>
  ELSE <<>>

RECURSIVE Flatten(_)
Flatten(seqs) == IF seqs = <<>> THEN <<>> ELSE Head(seqs) \o Flatten(Tail(seqs))

blockToMarkdown(block) ==
  CASE block.type = "section" ->
         Join((IF block.text # None
                 THEN <<textObjectToString(block.text)>> ELSE <<>>)
              \o (IF block.fields # None /\ Len(block.fields) > 0
                    THEN <<Join(FilterBoolean([i \in 1..Len(block.fields) |->
                                  textObjectToString(block.fields[i])]), "\n")>>
                    ELSE <<>>),
              "\n\n")
    [] block.type = "header" -> "## " \o textObjectToString(block.text)
    [] block.type = "context" ->
         "_" \o Join(FilterBoolean([i \in 1..Len(block.elements) |->
                                      contextElementText(block.elements[i])]),
                     " | ")
         \o "_"
    [] block.type = "divider" -> "---"
    [] block.type = "markdown" -> Nullish(block.text, "")
    [] block.type = "rich_text" ->
         LET elements == Nullish(block.elements, <<>>) IN
         Join(Flatten([i \in 1..Len(elements) |-> richTextParts(elements[i])]),
              "\n")
    [] block.type = "image" ->
         LET altText == Nullish(block.alt_text, "image")
             title == IF block.title # None
                        THEN textObjectToString(block.title) ELSE altText
         IN IF Truthy(block.image_url)
              THEN "![" \o title \o "](" \o block.image_url \o ")"
              ELSE "[Image: " \o title \o "]"
    [] OTHER -> ""

blocksToMarkdown(blocks) ==
  Join(FilterBoolean([i \in 1..Len(blocks) |-> blockToMarkdown(blocks[i])]),
       "\n\n")

\* Variant: the attachments section comes before the blocks section.
buildFullMarkdownAttachmentsFirst(text, attachments, blocks) ==
  Join((IF Truthy(text) THEN <<text>> ELSE <<>>)
       \o (IF attachments # None /\ Len(attachments) > 0
             THEN IF Truthy(attachmentsToMarkdown(attachments))
                    THEN <<attachmentsToMarkdown(attachments)>> ELSE <<>>
             ELSE <<>>)
       \o (IF blocks # None /\ Len(blocks) > 0
             THEN IF Truthy(blocksToMarkdown(blocks))
                    THEN <<blocksToMarkdown(blocks)>> ELSE <<>>
             ELSE <<>>),
       "\n\n")

buildFullMarkdown(text, attachments, blocks) ==
  Join((IF Truthy(text) THEN <<text>> ELSE <<>>)
       \o (IF blocks # None /\ Len(blocks) > 0
             THEN IF Truthy(blocksToMarkdown(blocks))
                    THEN <<blocksToMarkdown(blocks)>> ELSE <<>>
             ELSE <<>>)
       \o (IF attachments # None /\ Len(attachments) > 0
             THEN IF Truthy(attachmentsToMarkdown(attachments))
                    THEN <<attachmentsToMarkdown(attachments)>> ELSE <<>>
             ELSE <<>>),
       "\n\n")

----------------------------------------------------------------------------
\* Inputs

Timestamps == {"1", "2", "3", "4"}
Users == {"U1"}
Texts == {"hello"}
Challenges == {"c1", "c2"}
Tokens == {"t1", "t2"}
Usernames == {"alice", ""}

\* The blocks of the message "3": a divider.
DividerBlocks == <<[BlankBlock EXCEPT !.type = "divider"]>>

\* Events of a channel that groupMappings maps: the root "1" of a thread,
\* sent by a user; the replies "2" and "4" to the thread "1"; the root "3" of
\* the other channel, with thread_ts equal to ts, no user, and blocks; and
\* events that lack ts, with and without thread_ts.
AdmittedEvents ==
  [channel : {"C1"}, ts : {"1"}, thread_ts : {None}, user : Users,
   text : Texts, attachments : {None}, blocks : {None}]
  \cup
  [channel : {"C1"}, ts : {"2", "4"}, thread_ts : {"1"}, user : {None},
   text : Texts, attachments : {None}, blocks : {None}]
  \cup
  [channel : {"C2"}, ts : {"3"}, thread_ts : {"3"}, user : {None},
   text : Texts, attachments : {None}, blocks : {DividerBlocks}]
  \cup
  [channel : {"C1"}, ts : {None}, thread_ts : {None}, user : Users,
   text : Texts, attachments : {None}, blocks : {None}]
  \cup
  [channel : {"C1"}, ts : {None}, thread_ts : {"1"}, user : {None},
   text : Texts, attachments : {None}, blocks : {None}]

\* Events without a channel, or of a channel that groupMappings does not map.
UnadmittedEvents ==
  [channel : {None}, ts : {None}, thread_ts : {"1"}, user : Users,
   text : Texts, attachments : {None}, blocks : {None}]
  \cup
  [channel : {"C9"}, ts : {"1"}, thread_ts : {None}, user : Users,
   text : Texts, attachments : {None}, blocks : {None}]

\* The event of a message envelope, fields probed by the handler.
Events == AdmittedEvents \cup UnadmittedEvents

\* Message contents for the normalizer on its own: text absent, empty and
\* present; blocks and attachments absent, empty, present but normalizing to
\* the empty string, and normalizing to one or several parts (among them
\* unknown and empty blocks around and between rendered ones, and quotes of
\* one line and of several lines).
NormTexts == {None, "", "hello"}

\* A text element, and the blocks of a message that holds one rich_text
\* block with one rich_text_quote of the given elements.
TextElement(text) == [BlankElement EXCEPT !.type = "text", !.text = text]
QuoteBlocks(elements) ==
  <<[BlankBlock EXCEPT
       !.type = "rich_text",
       !.elements = <<[BlankElement EXCEPT !.type = "rich_text_quote",
                                           !.elements = elements]>>]>>

NormBlocks ==
  {None, <<>>,
   <<[BlankBlock EXCEPT !.type = "actions"]>>,
   <<[BlankBlock EXCEPT !.type = "markdown", !.text = ""]>>,
   DividerBlocks,
   <<[BlankBlock EXCEPT !.type = "section", !.text = <<"mrkdwn", "body">>],
     [BlankBlock EXCEPT !.type = "actions"],
     [BlankBlock EXCEPT !.type = "header", !.text = <<"plain_text", "head">>]>>,
   <<[BlankBlock EXCEPT !.type = "actions"],
     [BlankBlock EXCEPT !.type = "divider"],
     [BlankBlock EXCEPT !.type = "markdown", !.text = ""],
     [BlankBlock EXCEPT !.type = "section"],
     [BlankBlock EXCEPT !.type = "markdown", !.text = "md"],
     [BlankBlock EXCEPT !.type = "input"]>>,
   QuoteBlocks(<<TextElement("q1")>>),
   QuoteBlocks(<<TextElement("q1\nq2"), TextElement("\nq3")>>)}
NormAttachments ==
  {None, <<>>,
   <<BlankAttachment>>,
   <<[BlankAttachment EXCEPT !.text = "att"]>>,
   <<[BlankAttachment EXCEPT !.fallback = "fb"], BlankAttachment,
     [BlankAttachment EXCEPT !.title = "t", !.footer = "f"]>>}
NormEvents ==
  [channel : {"C1"}, ts : {"1"}, thread_ts : {None}, user : {None},
   text : NormTexts, attachments : NormAttachments, blocks : NormBlocks]

\* The events a handshake payload may carry in its other fields.
SampleEvents ==
  {[channel |-> "C1", ts |-> "1", thread_ts |-> None, user |-> "U1",
    text |-> "hello", attachments |-> None, blocks |-> None],
   [channel |-> None, ts |-> None, thread_ts |-> None, user |-> None,
    text |-> "hello", attachments |-> None, blocks |-> None]}

\* req.body: SlackUrlVerification | EnvelopedEvent
Payloads ==
  [type : {"url_verification"}, token : Tokens, challenge : Challenges,
   event : SampleEvents]
  \cup
  [type : {"event_callback"}, token : {None}, challenge : {None}, event : Events]

----------------------------------------------------------------------------
\* Pure helpers of the handler

\* const isThreadedReply = threadTs && threadTs !== ts;
isThreadedReply(ev) == Truthy(ev.thread_ts) /\ ev.thread_ts # ev.ts

\* Variant: the dedup key is always the event's own ts.
threadIdToDedupeOwnTs(ev) == ev.ts

\* Variant: the dedup key is always thread_ts.
threadIdToDedupeThreadTs(ev) == ev.thread_ts

\* const threadIdToDedupe = isThreadedReply ? threadTs : ts;
threadIdToDedupe(ev) == IF isThreadedReply(ev) THEN ev.thread_ts ELSE ev.ts

\* Variant: the prefix is applied whatever the resolved name is.
PrefixUsernameAlways(username, markdown) ==
  "[" \o username \o "] " \o markdown

\* markdown = `[${username}] ${markdown}` when the resolved name is truthy.
PrefixUsername(username, markdown) ==
  IF Truthy(username) THEN "[" \o username \o "] " \o markdown ELSE markdown

----------------------------------------------------------------------------
\* State

VARIABLES
  hs,        \* hs[h]: the invocation h of the handler (its locals and its calls)
  store,     \* the SlackIdMap's contents: Slack id -> Slashwork id, or None
  nextId,    \* the Slashwork service's next fresh node id
  config     \* which optional collaborators the SlackWebhookConfig carries

vars == <<hs, store, nextId, config>>

\* One invocation before it is called.
\*   pc        the await the invocation is suspended at ("idle" before the call)
\*   payload   req.body
\*   markdown  let markdown
\*   username  const username
\*   prev      const previousSlashId
\*   parent    const parentPostId
\*   dest      the id createPost / createComment returned
\*   log       the calls the invocation made on res, the collaborators and the
\*             service, in order
\*   raised    the handler's promise rejected
\*   after     the invocations that had completed when this one was called
NoPayload ==
  [type |-> None, token |-> None, challenge |-> None,
   event |-> [channel |-> None, ts |-> None, thread_ts |-> None,
              user |-> None, text |-> None, attachments |-> None,
              blocks |-> None]]

IdleHandler ==
  [pc |-> "idle", payload |-> NoPayload, markdown |-> None,
   username |-> None, prev |-> None,
   parent |-> None, dest |-> None, log |-> <<>>, raised |-> FALSE, after |-> {}]

Init ==
  /\ hs = [h \in Handlers |-> IdleHandler]
  /\ store = [k \in Timestamps |-> None]
  /\ nextId = 1
  /\ config \in [slackIdMap : BOOLEAN, getSlackUsername : BOOLEAN]

Log(s, entry) == [s EXCEPT !.log = Append(@, entry)]

\* return;
Return(s) == [s EXCEPT !.pc = "done"]

\* The awaited call `from` throws.
Throw(s, from) == Log(s, [op |-> "throw", from |-> from])

\* An exception outside the try block leaves the handler: its promise rejects.
Raise(s) == [s EXCEPT !.pc = "done", !.raised = TRUE]

\* catch (error) { console.error("Failed to create post/comment:", error); }
Catch(s) == Return(Log(s, [op |-> "console.error"]))

\* slackIdMap.findSlackIdMapping(slackId): idMappings.get(slackId)
findSlackIdMapping(slackId) ==
  IF slackId \in DOMAIN store THEN store[slackId] ELSE None

\* slackIdMap.saveSlackId(slackId, slashworkId): idMappings.set(slackId, slashworkId)
saveSlackId(slackId, slashworkId) ==
  IF slackId \in DOMAIN store
    THEN [store EXCEPT ![slackId] = slashworkId]
    ELSE store

\* res.status(code).send()
Send(s, code) == Log(s, [op |-> "send", code |-> code])

----------------------------------------------------------------------------
\* The handler, from one await to the next

\* Variant: no check of ts before the dedup lookup.
DedupCallNoTsCheck(s) ==
  IF config.slackIdMap
    THEN [Log(s, [op |-> "find", key |-> threadIdToDedupe(s.payload.event)])
            EXCEPT !.pc = "awaitDedup"]
    ELSE [s EXCEPT !.pc = "awaitDedup"]

\* if (!ts) { res.status(400).send(); return; }
\* const previousSlashId = await config.slackIdMap?.findSlackIdMapping(threadIdToDedupe);
DedupCall(s) ==
  LET ev == s.payload.event IN
  IF ~Truthy(ev.ts) THEN Return(Send(s, 400))
  ELSE IF config.slackIdMap
    THEN [Log(s, [op |-> "find", key |-> threadIdToDedupe(ev)])
            EXCEPT !.pc = "awaitDedup"]
    ELSE [s EXCEPT !.pc = "awaitDedup"]

\* Variant: the markdown carries the service's id counter.
NormalizeStamped(s) ==
  LET ev == s.payload.event
      t == [s EXCEPT !.markdown =
              buildFullMarkdown(ev.text, ev.attachments, ev.blocks)
              \o ToString(nextId)] IN
  IF config.getSlackUsername /\ Truthy(ev.user)
    THEN [Log(t, [op |-> "getSlackUsername", user |-> ev.user])
            EXCEPT !.pc = "awaitUsername"]
    ELSE DedupCall(t)

\* let markdown = buildFullMarkdown(text, attachments, blocks);
\* if (config.getSlackUsername && userId) { await config.getSlackUsername(userId) ... }
Normalize(s) ==
  LET ev == s.payload.event
      t == [s EXCEPT !.markdown = buildFullMarkdown(ev.text, ev.attachments, ev.blocks)] IN
  IF config.getSlackUsername /\ Truthy(ev.user)
    THEN [Log(t, [op |-> "getSlackUsername", user |-> ev.user])
            EXCEPT !.pc = "awaitUsername"]
    ELSE DedupCall(t)

\* Variant: a channel that groupMappings does not map is not skipped.
AdmitAll(s) ==
  IF ~Truthy(s.payload.event.channel) THEN Return(Send(s, 200)) ELSE Normalize(s)

\* Channel admission: the event has a channel and groupMappings maps it.
Admit(s) ==
  LET ev == s.payload.event IN
  IF ~Truthy(ev.channel) THEN Return(Send(s, 200))
  ELSE IF ~Truthy(GroupOf(ev.channel)) THEN Return(Send(s, 200))
  ELSE Normalize(s)

\* Variant: the handshake reply carries the payload's token.
BeginEchoToken(s) ==
  IF s.payload.type = "url_verification"
    THEN Return(Log(s, [op |-> "json", code |-> 200,
                        challenge |-> s.payload.token]))
    ELSE Admit(Send(s, 200))

\* Variant: no acknowledgment before the event is looked at.
BeginNoAck(s) ==
  IF s.payload.type = "url_verification"
    THEN Return(Log(s, [op |-> "json", code |-> 200,
                        challenge |-> s.payload.challenge]))
    ELSE Admit(s)

\* The handler from its call to its first await.
Begin(s) ==
  IF s.payload.type = "url_verification"
    THEN Return(Log(s, [op |-> "json", code |-> 200,
                        challenge |-> s.payload.challenge]))
    ELSE Admit(Send(s, 200))

\* The handler is called with req.body = payload.
Start(h) ==
  /\ hs[h].pc = "idle"
  /\ IF h = 1 THEN TRUE ELSE hs[h - 1].pc # "idle"
  /\ \E payload \in Payloads :
       hs' = [hs EXCEPT ![h] =
                Begin([IdleHandler EXCEPT
                         !.payload = payload,
                         !.after = {g \in Handlers : hs[g].pc = "done"}])]
  /\ UNCHANGED <<store, nextId, config>>

\* await config.getSlackUsername(userId) returns or throws.
ResumeUsername(h) ==
  /\ hs[h].pc = "awaitUsername"
  /\ \/ \E username \in Usernames :
          hs' = [hs EXCEPT ![h] =
                   DedupCall([hs[h] EXCEPT
                     !.username = username,
                     !.markdown = PrefixUsername(username, hs[h].markdown)])]
     \/ hs' = [hs EXCEPT ![h] = Raise(Throw(hs[h], "getSlackUsername"))]
  /\ UNCHANGED <<store, nextId, config>>

\* Variant: the dedup lookup's result is ignored.
AlreadyMirroredNever(previousSlashId) == FALSE

\* if (previousSlashId) { res.status(200).send(); return; }
AlreadyMirrored(previousSlashId) == Truthy(previousSlashId)

\* Variant: the root branch is taken whether or not the event is a reply.
DispatchAlwaysPost(s) ==
  LET ev == s.payload.event IN
  IF AlreadyMirrored(s.prev) THEN Return(Send(s, 200))
  ELSE [Log(s, [op |-> "createPost", groupId |-> GroupOf(ev.channel),
                markdown |-> s.markdown])
          EXCEPT !.pc = "awaitCreatePost"]

\* Lines 481-528: the dedup decision, then the branch on isThreadedReply up to
\* its first await (the parent lookup, or the createPost request).
Dispatch(s) ==
  LET ev == s.payload.event IN
  IF AlreadyMirrored(s.prev) THEN Return(Send(s, 200))
  ELSE IF isThreadedReply(ev)
    THEN IF ~config.slackIdMap
           THEN Return(Send(s, 200))
           ELSE [Log(s, [op |-> "find", key |-> ev.thread_ts])
                   EXCEPT !.pc = "awaitParent"]
    ELSE [Log(s, [op |-> "createPost", groupId |-> GroupOf(ev.channel),
                  markdown |-> s.markdown])
            EXCEPT !.pc = "awaitCreatePost"]

\* await config.slackIdMap?.findSlackIdMapping(threadIdToDedupe) returns the
\* stored id (undefined without a store) or throws, outside the try block.
ResumeDedup(h) ==
  /\ hs[h].pc = "awaitDedup"
  /\ \/ hs' = [hs EXCEPT ![h] =
                 Dispatch([hs[h] EXCEPT !.prev =
                   IF config.slackIdMap
                     THEN findSlackIdMapping(threadIdToDedupe(hs[h].payload.event))
                     ELSE None])]
     \/ /\ config.slackIdMap
        /\ hs' = [hs EXCEPT ![h] = Raise(Throw(hs[h], "findSlackIdMapping"))]
  /\ UNCHANGED <<store, nextId, config>>

\* Variant: the comment is created whether or not a parent was found.
CommentCallAlways(s) ==
  [Log(s, [op |-> "createComment", postId |-> s.parent, markdown |-> s.markdown])
     EXCEPT !.pc = "awaitCreateComment"]

\* if (parentPostId) { createComment(...) } else { console.log(...) }
CommentCall(s) ==
  IF Truthy(s.parent)
    THEN [Log(s, [op |-> "createComment", postId |-> s.parent,
                  markdown |-> s.markdown])
            EXCEPT !.pc = "awaitCreateComment"]
    ELSE Return(s)

\* await config.slackIdMap.findSlackIdMapping(threadTs) returns or throws,
\* inside the try block.
ResumeParent(h) ==
  /\ hs[h].pc = "awaitParent"
  /\ \/ hs' = [hs EXCEPT ![h] =
                 CommentCall([hs[h] EXCEPT !.parent =
                   findSlackIdMapping(hs[h].payload.event.thread_ts)])]
     \/ hs' = [hs EXCEPT ![h] = Catch(Throw(hs[h], "findSlackIdMapping"))]
  /\ UNCHANGED <<store, nextId, config>>

\* The responses the GraphQL service can give to a mutation: the transport
\* status, whether the body carries errors, and the created node's id.
Responses(id) ==
  {[ok |-> FALSE, errors |-> FALSE, id |-> None],
   [ok |-> TRUE, errors |-> TRUE, id |-> None],
   [ok |-> TRUE, errors |-> FALSE, id |-> None],
   [ok |-> TRUE, errors |-> FALSE, id |-> id]}

\* createPost / createComment after fetch: throw on !response.ok, throw on
\* result.errors, else return result.data?.createPost?.node?.id.
MutationResult(response) ==
  IF ~response.ok THEN [threw |-> TRUE, id |-> None]
  ELSE IF response.errors THEN [threw |-> TRUE, id |-> None]
  ELSE [threw |-> FALSE, id |-> response.id]

\* Variant: the comment's id is never saved.
SaveCommentCallNever(s) == Return(s)

\* if (commentId) { await config.slackIdMap.saveSlackId(threadTs, commentId); }
SaveCommentCall(s) ==
  IF Truthy(s.dest)
    THEN [Log(s, [op |-> "save", key |-> s.payload.event.thread_ts,
                  id |-> s.dest])
            EXCEPT !.pc = "awaitSaveComment"]
    ELSE Return(s)

\* Variant: the post's id is saved whether or not a store is configured.
SavePostCallWithoutStore(s) ==
  IF Truthy(s.payload.event.ts) /\ Truthy(s.dest)
    THEN [Log(s, [op |-> "save", key |-> s.payload.event.ts, id |-> s.dest])
            EXCEPT !.pc = "awaitSavePost"]
    ELSE Return(s)

\* Variant: the post's id is saved whether or not createPost returned one.
SavePostCallAnyId(s) ==
  IF config.slackIdMap /\ Truthy(s.payload.event.ts)
    THEN [Log(s, [op |-> "save", key |-> s.payload.event.ts, id |-> s.dest])
            EXCEPT !.pc = "awaitSavePost"]
    ELSE Return(s)

\* Variant: the post's id is never saved.
SavePostCallNever(s) == Return(s)

\* if (config.slackIdMap && ts && postId) { await config.slackIdMap.saveSlackId(ts, postId); }
SavePostCall(s) ==
  IF config.slackIdMap /\ Truthy(s.payload.event.ts) /\ Truthy(s.dest)
    THEN [Log(s, [op |-> "save", key |-> s.payload.event.ts, id |-> s.dest])
            EXCEPT !.pc = "awaitSavePost"]
    ELSE Return(s)

\* await createComment(...) returns an id, returns undefined, or throws.
ResumeCreateComment(h) ==
  /\ hs[h].pc = "awaitCreateComment"
  /\ \E response \in Responses("K" \o ToString(nextId)) :
       LET r == MutationResult(response) IN
       /\ hs' = [hs EXCEPT ![h] =
                   IF r.threw THEN Catch(Throw(hs[h], "fetch"))
                   ELSE SaveCommentCall([hs[h] EXCEPT !.dest = r.id])]
       /\ nextId' = IF Truthy(response.id) THEN nextId + 1 ELSE nextId
  /\ UNCHANGED <<store, config>>

\* await createPost(...) returns an id, returns undefined, or throws.
ResumeCreatePost(h) ==
  /\ hs[h].pc = "awaitCreatePost"
  /\ \E response \in Responses("P" \o ToString(nextId)) :
       LET r == MutationResult(response) IN
       /\ hs' = [hs EXCEPT ![h] =
                   IF r.threw THEN Catch(Throw(hs[h], "fetch"))
                   ELSE SavePostCall([hs[h] EXCEPT !.dest = r.id])]
       /\ nextId' = IF Truthy(response.id) THEN nextId + 1 ELSE nextId
  /\ UNCHANGED <<store, config>>

\* await config.slackIdMap.saveSlackId(...) returns, or throws and is caught.
ResumeSave(h) ==
  /\ hs[h].pc \in {"awaitSaveComment", "awaitSavePost"}
  /\ LET call == hs[h].log[Len(hs[h].log)] IN
     \/ /\ store' = saveSlackId(call.key, call.id)
        /\ hs' = [hs EXCEPT ![h] = Return(hs[h])]
     \/ /\ hs' = [hs EXCEPT ![h] = Catch(Throw(hs[h], "saveSlackId"))]
        /\ UNCHANGED store
  /\ UNCHANGED <<nextId, config>>

Next ==
  \E h \in Handlers :
    \/ Start(h)
    \/ ResumeUsername(h)
    \/ ResumeDedup(h)
    \/ ResumeParent(h)
    \/ ResumeCreateComment(h)
    \/ ResumeCreatePost(h)
    \/ ResumeSave(h)

Spec == Init /\ [][Next]_vars

----------------------------------------------------------------------------
\* The normalizer on its own: handlings of messages of every content, run up
\* to the await that follows buildFullMarkdown, with no username resolver.

NormHandlers == {1, 2}

NormInit ==
  /\ Init
  /\ ~config.getSlackUsername

NormalizeEvent(h) ==
  /\ h \in NormHandlers
  /\ hs[h].pc = "idle"
  /\ \E ev \in NormEvents :
       hs' = [hs EXCEPT ![h] =
                Normalize([IdleHandler EXCEPT !.payload =
                  [type |-> "event_callback", token |-> None,
                   challenge |-> None, event |-> ev]])]
  /\ UNCHANGED <<store, nextId, config>>

NormNext == \E h \in Handlers : NormalizeEvent(h)

NormSpec == NormInit /\ [][NormNext]_vars

----------------------------------------------------------------------------
\* Vocabulary of the properties

Started(h) == hs[h].pc # "idle"
Done(h) == hs[h].pc = "done"
Ev(h) == hs[h].payload.event
IsMessage(h) == hs[h].payload.type = "event_callback"
IsHandshake(h) == hs[h].payload.type = "url_verification"

\* The event's channel is present and groupMappings maps it.
Admitted(h) == IsMessage(h) /\ Truthy(Ev(h).channel) /\ Truthy(GroupOf(Ev(h).channel))
HasTs(h) == Truthy(Ev(h).ts)
IsReply(h) == IsMessage(h) /\ Truthy(Ev(h).thread_ts) /\ Ev(h).thread_ts # Ev(h).ts
IsRoot(h) == IsMessage(h) /\ HasTs(h) /\ ~IsReply(h)

\* The positions of h's log that hold a call of one of the operations ops.
Calls(h, ops) == {i \in DOMAIN hs[h].log : hs[h].log[i].op \in ops}
NumCalls(h, ops) == Cardinality(Calls(h, ops))
DestOps == {"createPost", "createComment"}
StoreOps == {"find", "save"}

\* A collaborator (store or username resolver) threw during h's handling.
CollaboratorThrew(h) ==
  \E i \in Calls(h, {"throw"}) : hs[h].log[i].from # "fetch"

\* h's destination call failed (createPost / createComment threw).
DestFailed(h) ==
  \E i \in Calls(h, {"throw"}) : hs[h].log[i].from = "fetch"

\* h's handling responded with the status code.
Sent(h, code) ==
  \E i \in Calls(h, {"send"}) : hs[h].log[i].code = code

\* h's saveSlackId(k, id) call returned: the mapping k -> id was written.
Wrote(h, k, id) ==
  /\ Done(h)
  /\ hs[h].log # <<>>
  /\ LET last == hs[h].log[Len(hs[h].log)] IN
       last.op = "save" /\ last.key = k /\ last.id = id

WroteKey(h, k) == \E i \in Calls(h, {"save"}) : Wrote(h, k, hs[h].log[i].id)

\* h is a redelivery of the event g handled: the same payload, and g had
\* completed when h was called.
Redelivers(h, g) ==
  /\ g # h /\ Started(h) /\ g \in hs[h].after
  /\ IsMessage(g) /\ hs[g].payload = hs[h].payload

\* g's destination call returned an id and g wrote the mapping for it.
Mirrored(g) ==
  /\ Truthy(hs[g].dest)
  /\ \E k \in DOMAIN store : Wrote(g, k, hs[g].dest)

----------------------------------------------------------------------------
\* Properties

\* C1: an admitted reply (thread_ts present and different from ts) whose
\* thread root already has a mapping root -> P when it is handled makes
\* exactly one createComment call, with parent P, and then writes the mapping
\* thread_ts -> the returned comment id.  (Stated for handlings in which no
\* collaborator throws and the destination call does not fail.)
C1_ReplyToMappedRootCreatesComment ==
  \A h \in Handlers :
    ( /\ Done(h) /\ Admitted(h) /\ HasTs(h) /\ IsReply(h)
      /\ ~CollaboratorThrew(h) /\ ~DestFailed(h)
      /\ \E g \in hs[h].after : WroteKey(g, Ev(h).thread_ts) )
    => /\ NumCalls(h, {"createComment"}) = 1
       /\ \A i \in Calls(h, {"createComment"}) :
            /\ \E g \in Handlers : Wrote(g, Ev(h).thread_ts, hs[h].log[i].postId)
            /\ Truthy(hs[h].dest) =>
                 \E j \in Calls(h, {"save"}) :
                   /\ j > i
                   /\ hs[h].log[j].key = Ev(h).thread_ts
                   /\ hs[h].log[j].id = hs[h].dest

\* C2: an admitted root event, with a store configured, no mapping found for
\* its ts and a createPost that returns an id, makes exactly one createPost
\* call under the channel's group, exactly one mapping write ts -> returned
\* id, and no createComment call.
C2_RootCreatesOnePostAndOneMapping ==
  \A h \in Handlers :
    ( /\ Done(h) /\ Admitted(h) /\ IsRoot(h) /\ config.slackIdMap
      /\ ~Truthy(hs[h].prev) /\ Truthy(hs[h].dest) )
    => /\ NumCalls(h, {"createPost"}) = 1
       /\ \A i \in Calls(h, {"createPost"}) :
            hs[h].log[i].groupId = groupMappings[Ev(h).channel]
       /\ NumCalls(h, {"save"}) = 1
       /\ \A i \in Calls(h, {"save"}) :
            hs[h].log[i].key = Ev(h).ts /\ hs[h].log[i].id = hs[h].dest
       /\ NumCalls(h, {"createComment"}) = 0

C2_Witness ==
  \E h \in Handlers :
    /\ Done(h) /\ Admitted(h) /\ IsRoot(h) /\ config.slackIdMap
    /\ Truthy(hs[h].dest) /\ Wrote(h, Ev(h).ts, hs[h].dest)
    /\ store[Ev(h).ts] = hs[h].dest

C5_UnmappedChannelIsSkipped ==
  \A h \in Handlers :
    (Started(h) /\ IsMessage(h) /\ ~Admitted(h))
    => /\ Done(h)
       /\ NumCalls(h, DestOps) = 0
       /\ NumCalls(h, StoreOps) = 0
       /\ NumCalls(h, {"getSlackUsername"}) = 0
       /\ ~Sent(h, 400)
       /\ ~hs[h].raised

C5_Witness ==
  \E h \in Handlers :
    /\ Done(h) /\ IsMessage(h) /\ Ev(h).channel = "C9" /\ Ev(h).ts = "1"
    /\ hs[h].log = <<[op |-> "send", code |-> 200], [op |-> "send", code |-> 200]>>

C7_HandshakeEchoesChallenge ==
  \A h \in Handlers :
    (Started(h) /\ IsHandshake(h))
    => /\ Done(h) /\ ~hs[h].raised
       /\ hs[h].log = <<[op |-> "json", code |-> 200,
                         challenge |-> hs[h].payload.challenge]>>

C7_Witness ==
  \E h \in Handlers :
    /\ Done(h) /\ IsHandshake(h) /\ hs[h].payload.challenge = "c2"
    /\ hs[h].payload.token = "t2" /\ hs[h].payload.event.channel = "C1"
    /\ hs[h].log[1].challenge = "c2"

\* C8: in the handling of a message envelope every username-resolution call,
\* store read or write and destination call comes after the 200
\* acknowledgment, which is the handling's first call.
C8_AckPrecedesAllCalls ==
  \A h \in Handlers :
    (Started(h) /\ IsMessage(h))
    => /\ hs[h].log # <<>>
       /\ Head(hs[h].log) = [op |-> "send", code |-> 200]
       /\ \A i \in Calls(h, StoreOps \cup DestOps \cup {"getSlackUsername"}) :
            \E j \in Calls(h, {"send"}) : j < i /\ hs[h].log[j].code = 200

C8_Witness ==
  \E h \in Handlers :
    /\ IsMessage(h)
    /\ NumCalls(h, {"getSlackUsername"}) = 1
    /\ NumCalls(h, {"find"}) = 1
    /\ NumCalls(h, {"createPost"}) = 1
    /\ NumCalls(h, {"save"}) = 1

\* g and h handle the same source message: same channel, same ts.
SameMessage(g, h) ==
  /\ IsMessage(g) /\ IsMessage(h)
  /\ Ev(g).channel = Ev(h).channel /\ Ev(g).ts = Ev(h).ts

\* C9: when a destination call fails, the handling writes no mapping, makes
\* no second destination call and completes without raising; and a later
\* redelivery of the event, no handling of that message having been mirrored,
\* passes the dedup check and makes a destination call of its own.
C9_FailedCreateLeavesRetryOpen ==
  \A g \in Handlers :
    (Done(g) /\ DestFailed(g))
    => /\ NumCalls(g, {"save"}) = 0
       /\ NumCalls(g, DestOps) = 1
       /\ ~hs[g].raised
       /\ \A h \in Handlers :
            ( /\ Redelivers(h, g) /\ Done(h) /\ ~CollaboratorThrew(h)
              /\ \A f \in Handlers : SameMessage(f, h) => ~Mirrored(f) )
            => ~Truthy(hs[h].prev) /\ NumCalls(h, DestOps) = 1

\* The handlings did not overlap: each had completed when the next was called.
Sequential ==
  \A g, h \in Handlers : (g < h /\ Started(h)) => g \in hs[h].after

\* Every key of the store was written by at most one handling, and holds the
\* id that handling wrote.
WrittenOnce ==
  \A k \in DOMAIN store :
    /\ Cardinality({h \in Handlers : WroteKey(h, k)}) <= 1
    /\ \A h \in Handlers : WroteKey(h, k) => Wrote(h, k, store[k])

ReturnedByCreatePost(id) ==
  \E g \in Handlers : hs[g].dest = id /\ NumCalls(g, {"createPost"}) = 1
ReturnedByCreateComment(id) ==
  \E g \in Handlers : hs[g].dest = id /\ NumCalls(g, {"createComment"}) = 1

\* C11: over any interleaving of root and reply handlings, the parent id
\* passed to createComment is an id that createPost returned, never an id
\* that createComment returned.
C11_CommentParentIsAPost ==
  \A h \in Handlers :
    \A i \in Calls(h, {"createComment"}) :
      /\ ReturnedByCreatePost(hs[h].log[i].postId)
      /\ ~ReturnedByCreateComment(hs[h].log[i].postId)

\* C12: a handling makes at most one destination call in total; a createPost
\* call is made only for a root event and a createComment call only for a
\* reply event.
C12_AtMostOneDestinationWrite ==
  \A h \in Handlers :
    /\ NumCalls(h, DestOps) <= 1
    /\ NumCalls(h, {"createPost"}) = 1 => IsRoot(h) /\ Admitted(h)
    /\ NumCalls(h, {"createComment"}) = 1 => IsReply(h) /\ Admitted(h) /\ HasTs(h)

C12_Witness ==
  \E g, h \in Handlers :
    /\ Done(g) /\ IsRoot(g) /\ NumCalls(g, {"createPost"}) = 1
    /\ NumCalls(g, {"save"}) = 1
    /\ Done(h) /\ IsReply(h) /\ NumCalls(h, {"createComment"}) = 1
    /\ NumCalls(h, {"save"}) = 1 /\ NumCalls(h, DestOps) = 1

\* The sections of a message's document: each source's markdown, the empty
\* string when the source is absent.
TextSection(ev) == IF ev.text = None THEN "" ELSE ev.text
BlocksSection(ev) ==
  IF ev.blocks = None THEN "" ELSE blocksToMarkdown(ev.blocks)
AttachmentsSection(ev) ==
  IF ev.attachments = None THEN "" ELSE attachmentsToMarkdown(ev.attachments)

\* The non-empty ones among three sections, in order, a blank line between
\* neighbours.
Document(t, b, a) ==
  CASE t = "" /\ b = "" /\ a = "" -> ""
    [] t # "" /\ b = "" /\ a = "" -> t
    [] t = "" /\ b # "" /\ a = "" -> b
    [] t = "" /\ b = "" /\ a # "" -> a
    [] t # "" /\ b # "" /\ a = "" -> t \o "\n\n" \o b
    [] t # "" /\ b = "" /\ a # "" -> t \o "\n\n" \o a
    [] t = "" /\ b # "" /\ a # "" -> b \o "\n\n" \o a
    [] OTHER -> t \o "\n\n" \o b \o "\n\n" \o a

\* C13: buildFullMarkdown returns the non-empty sections among (text,
\* normalized blocks, normalized attachments), in that order, joined by a
\* blank line; an empty section is omitted and leaves no separator, and the
\* result is the empty string when all three are empty.
C13_DocumentIsNonEmptySectionsInOrder ==
  \A h \in Handlers :
    hs[h].markdown # None =>
      hs[h].markdown =
        Document(TextSection(Ev(h)), BlocksSection(Ev(h)), AttachmentsSection(Ev(h)))

C13_Witness ==
  \E g, h \in Handlers :
    /\ hs[g].markdown = ""
    /\ Ev(g).blocks # None /\ Ev(g).blocks # <<>>
    /\ Ev(g).attachments # None /\ Ev(g).attachments # <<>>
    /\ TextSection(Ev(h)) = ""
    /\ BlocksSection(Ev(h)) = "body\n\n## head"
    /\ AttachmentsSection(Ev(h)) = "fb\n\n---\n\n**t**\n\n_f_"
    /\ hs[h].markdown = "body\n\n## head\n\nfb\n\n---\n\n**t**\n\n_f_"

\* h holds the normalizer's output as it was returned: no username has been
\* resolved for it.
Unprefixed(h) == hs[h].markdown # None /\ hs[h].username = None

\* g and h handle messages of identical (text, blocks, attachments).
SameOptional(x, y) ==
  IF x = None THEN y = None ELSE IF y = None THEN FALSE ELSE x = y
SameContent(g, h) ==
  /\ Ev(g).text = Ev(h).text
  /\ SameOptional(Ev(g).blocks, Ev(h).blocks)
  /\ SameOptional(Ev(g).attachments, Ev(h).attachments)

Normalized(h) == buildFullMarkdown(Ev(h).text, Ev(h).attachments, Ev(h).blocks)

\* C15: the markdown of every destination call is "[name] " followed by the
\* normalized markdown when the resolver is configured, the event has a user
\* and the resolver returned a non-empty name; it is the normalized markdown
\* when the resolver is absent, the user is absent or the name is empty; and
\* the resolver is called only when it is configured and the user present.
C15_UsernamePrefix ==
  \A h \in Handlers :
    /\ \A i \in Calls(h, DestOps) :
         hs[h].log[i].markdown =
           IF config.getSlackUsername /\ Truthy(Ev(h).user)
              /\ Truthy(hs[h].username)
             THEN "[" \o hs[h].username \o "] " \o Normalized(h)
             ELSE Normalized(h)
    /\ (~config.getSlackUsername \/ ~Truthy(Ev(h).user))
         => NumCalls(h, {"getSlackUsername"}) = 0 /\ hs[h].username = None

C15_Witness ==
  \E f, g, h \in Handlers :
    /\ hs[f].username = "alice"
    /\ \E i \in Calls(f, {"createPost"}) : hs[f].log[i].markdown = "[alice] hello"
    /\ hs[g].username = "" /\ NumCalls(g, {"getSlackUsername"}) = 1
    /\ \E i \in Calls(g, {"createPost"}) : hs[g].log[i].markdown = "hello"
    /\ Ev(h).user = None /\ config.getSlackUsername
    /\ \E i \in Calls(h, {"createPost"}) : hs[h].log[i].markdown = "hello\n\n---"

\* The canonical dedup key of h's event: thread_ts for a reply, else ts.
CanonicalKey(h) == IF IsReply(h) THEN Ev(h).thread_ts ELSE Ev(h).ts

Overlap(g, h) == g # h /\ g \notin hs[h].after /\ h \notin hs[g].after

\* C17: with a store configured, when one root event is delivered twice and
\* the two handlings are in flight together, no collaborator throwing and no
\* destination call failing, at most one of them makes a createPost call.
C17_ConcurrentRedeliveryMakesOnePost ==
  \A g, h \in Handlers :
    ( /\ config.slackIdMap
      /\ Started(g) /\ Started(h) /\ Overlap(g, h)
      /\ IsRoot(g) /\ hs[g].payload = hs[h].payload
      /\ ~CollaboratorThrew(g) /\ ~CollaboratorThrew(h)
      /\ ~DestFailed(g) /\ ~DestFailed(h) )
    => ~(NumCalls(g, {"createPost"}) = 1 /\ NumCalls(h, {"createPost"}) = 1)

\* g and h handle distinct replies to one thread root.
DistinctReplies(g, h) ==
  /\ g # h /\ IsReply(g) /\ IsReply(h) /\ Admitted(g) /\ Admitted(h)
  /\ HasTs(g) /\ HasTs(h) /\ Ev(g).ts # Ev(h).ts
  /\ Ev(g).channel = Ev(h).channel /\ Ev(g).thread_ts = Ev(h).thread_ts

\* C18: two distinct replies to one thread root whose parent lookups both
\* returned the same parent (so that neither lookup saw the other's mapping
\* write) each make a createComment call under that parent, and each one
\* whose call returned an id goes on to write the root's mapping with it.
C18_RacingRepliesBothComment ==
  \A g, h \in Handlers :
    ( /\ DistinctReplies(g, h)
      /\ Truthy(hs[g].parent) /\ hs[g].parent = hs[h].parent )
    => /\ NumCalls(g, {"createComment"}) = 1
       /\ \A i \in Calls(g, {"createComment"}) :
            hs[g].log[i].postId = hs[g].parent
       /\ Truthy(hs[g].dest) =>
            \E j \in Calls(g, {"save"}) :
              /\ hs[g].log[j].key = Ev(g).thread_ts
              /\ hs[g].log[j].id = hs[g].dest
       /\ (Done(g) /\ Truthy(hs[g].dest) /\ ~CollaboratorThrew(g))
            => Wrote(g, Ev(g).thread_ts, hs[g].dest)

C18_Witness ==
  \E f, g, h \in Handlers :
    /\ IsRoot(f) /\ Mirrored(f) /\ Ev(f).ts = Ev(g).thread_ts
    /\ DistinctReplies(g, h) /\ Overlap(g, h)
    /\ hs[g].parent = hs[f].dest /\ hs[h].parent = hs[f].dest
    /\ Truthy(hs[g].dest) /\ Truthy(hs[h].dest) /\ hs[g].dest # hs[h].dest
    /\ Wrote(g, Ev(g).thread_ts, hs[g].dest)
    /\ Wrote(h, Ev(h).thread_ts, hs[h].dest)
    /\ store[Ev(f).ts] = hs[h].dest

\* The calls of h's log that come after its first throw entry.
CallsAfterThrow(h, ops) ==
  {i \in Calls(h, ops) : \E j \in Calls(h, {"throw"}) : j < i}

\* C19: when a collaborator (store lookup, store save or username resolver)
\* throws during a handling, the handling completes without raising, the
\* failure is logged, and no destination call follows the failure.
C19_CollaboratorFailureIsCaught ==
  \A h \in Handlers :
    (Done(h) /\ CollaboratorThrew(h))
    => /\ ~hs[h].raised
       /\ NumCalls(h, {"console.error"}) = 1
       /\ CallsAfterThrow(h, DestOps) = {}

\* The responses of h's handling: the res.send and res.json calls.
ResponseOps == {"send", "json"}

\* C20: a completed handling has sent exactly one response, the 200
\* acknowledgment (or handshake echo) or the 400 rejection, and no 400 comes
\* after a 200.
C20_ExactlyOneResponse ==
  \A h \in Handlers :
    /\ Done(h) => NumCalls(h, ResponseOps) = 1
    /\ \A i, j \in Calls(h, ResponseOps) :
         (i < j /\ hs[h].log[i].code = 200) => hs[h].log[j].code # 400

KnownBlockTypes ==
  {"section", "header", "context", "divider", "markdown", "rich_text", "image"}

\* The block contributes nothing: its kind is unknown or it renders to the
\* empty string.
Dropped(block) ==
  block.type \notin KnownBlockTypes \/ blockToMarkdown(block) = ""

\* The block list with the blocks that contribute nothing removed.
KeptBlocks(blocks) == SelectSeq(blocks, LAMBDA block : ~Dropped(block))

\* h's message has blocks and nothing else.
BlocksOnly(h) ==
  /\ hs[h].markdown # None /\ Ev(h).blocks # None
  /\ TextSection(Ev(h)) = "" /\ AttachmentsSection(Ev(h)) = ""

\* C22: blocksToMarkdown of a block list equals blocksToMarkdown of the list
\* with the unknown and empty-rendering blocks removed, which is the
\* renderings of the remaining blocks in their order with one blank line
\* between neighbours; a message of blocks only normalizes to exactly that.
C22_DroppedBlocksContributeNothing ==
  \A h \in Handlers :
    (hs[h].markdown # None /\ Ev(h).blocks # None) =>
      LET kept == KeptBlocks(Ev(h).blocks) IN
      /\ blocksToMarkdown(Ev(h).blocks) = blocksToMarkdown(kept)
      /\ blocksToMarkdown(Ev(h).blocks) =
           Join([i \in 1..Len(kept) |-> blockToMarkdown(kept[i])], "\n\n")
      /\ BlocksOnly(h) =>
           hs[h].markdown =
             Join([i \in 1..Len(kept) |-> blockToMarkdown(kept[i])], "\n\n")

C22_Witness ==
  \E h \in Handlers :
    /\ BlocksOnly(h)
    /\ Len(Ev(h).blocks) = 6 /\ Len(KeptBlocks(Ev(h).blocks)) = 2
    /\ Ev(h).blocks[1].type = "actions" /\ Ev(h).blocks[4].type = "section"
    /\ hs[h].markdown = "---\n\nmd"

\* The lines of a text: its parts between line breaks.
RECURSIVE LinesFrom(_, _)
LinesFrom(text, i) ==
  IF i > Len(text) THEN <<text>>
  ELSE IF SubSeq(text, i, i) = "\n"
    THEN <<SubSeq(text, 1, i - 1)>>
         \o LinesFrom(SubSeq(text, i + 1, Len(text)), 1)
    ELSE LinesFrom(text, i + 1)
Lines(text) == LinesFrom(text, 1)

\* h's message is one rich_text block holding one rich_text_quote, and
\* nothing else.
QuoteOnly(h) ==
  /\ BlocksOnly(h)
  /\ Len(Ev(h).blocks) = 1
  /\ Ev(h).blocks[1].type = "rich_text"
  /\ Len(Ev(h).blocks[1].elements) = 1
  /\ Ev(h).blocks[1].elements[1].type = "rich_text_quote"

\* The text of h's quoted run.
QuoteText(h) == elementsText(Ev(h).blocks[1].elements[1].elements)

\* C23: a quoted run of a rich_text block is rendered with "> " in front of
\* every line of the quoted text.
C23_QuoteMarkerOnEveryLine ==
  \A h \in Handlers :
    QuoteOnly(h) =>
      hs[h].markdown =
        Join([i \in 1..Len(Lines(QuoteText(h))) |->
                "> " \o Lines(QuoteText(h))[i]], "\n")

\* C24: every mapping write of a handling comes after that handling's
\* destination call returned and stores the non-empty id it returned; a
\* handling whose destination call failed or returned no id writes nothing;
\* and every id the store holds was written by such a call.
C24_StoredIdsComeFromSuccessfulCreates ==
  /\ \A h \in Handlers :
       /\ \A j \in Calls(h, {"save"}) :
            /\ Truthy(hs[h].dest) /\ hs[h].log[j].id = hs[h].dest
            /\ ReturnedByCreatePost(hs[h].dest) \/ ReturnedByCreateComment(hs[h].dest)
            /\ \E i \in Calls(h, DestOps) : i < j
            /\ \A i \in Calls(h, {"throw"}) : j < i
       /\ (DestFailed(h) \/ (Done(h) /\ ~Truthy(hs[h].dest)))
            => NumCalls(h, {"save"}) = 0
  /\ \A k \in DOMAIN store :
       store[k] # None =>
         \E h \in Handlers : Truthy(hs[h].dest) /\ Wrote(h, k, store[k])

C24_Witness ==
  \E f, g, h \in Handlers :
    /\ config.slackIdMap
    /\ Mirrored(f) /\ store[Ev(f).ts] = hs[f].dest
    /\ Done(g) /\ NumCalls(g, {"createPost"}) = 1 /\ ~DestFailed(g)
    /\ ~Truthy(hs[g].dest) /\ NumCalls(g, {"save"}) = 0
    /\ Done(h) /\ DestFailed(h) /\ NumCalls(h, {"save"}) = 0

====
